---- MODULE Spec2Model ----
(***************************************************************************)
(* Model of src/scripts/lazy-after-banner.js: the deferred image and       *)
(* background loader that starts after the banner image has loaded (Spec,  *)
(* FairSpec), and the tab switcher of the policy page (TabSpec).  The two  *)
(* scripts share no state; each specification holds the other's variables  *)
(* still.                                                                  *)
(*                                                                         *)
(* One step of the model is one task of the browser's event loop (an       *)
(* event handler, a timer callback, an observer callback) together with    *)
(* the promise reactions it runs synchronously.  Where an `await` resumes  *)
(* in a microtask, the resumption is a step of its own and every other     *)
(* step is disabled until it has run (see Idle).                           *)
(*                                                                         *)
(* URLs are sequences of path segments; the empty sequence is the empty    *)
(* string, which JavaScript treats as falsy.                               *)
(***************************************************************************)
EXTENDS Bags, FiniteSets, Integers, Sequences, TLC

\* ------------------------------------------------------------------ cfg
concurrency == 2
mobileBreakpoint == 480
mobileSkip == << <<"image", "image.webp">> >>

\* ------------------------------------------------------------- bounds
\* Probes that one element may have pending at once outside the pools
\* (observer callbacks and visibility sweeps can repeat without limit).
MaxFreeProbes == 2

\* ----------------------------------------------------- document fixtures
EmptyUrl == << >>
UrlA == <<"a.jpg">>
UrlB == <<"b.png">>
UrlSkip == <<"image", "image.webp">>
UrlCdnSkip == <<"cdn", "image", "image.webp">>
UrlLogo == <<"logo.png">>
UrlMobile == <<"a-small.jpg">>
UrlBroken == <<"missing.jpg">>

El(tag, attrs, dsrc, dlazy, dbg, native) ==
  [tagName |-> tag, attrs |-> attrs, dataSrc |-> dsrc, dataLazy |-> dlazy,
   dataBg |-> dbg, src |-> native]

ImgA == El("IMG", {"data-src"}, UrlA, EmptyUrl, EmptyUrl, EmptyUrl)
ImgLazy == El("IMG", {"data-src", "data-lazy"}, EmptyUrl, UrlB, EmptyUrl, EmptyUrl)
ImgSkip == El("IMG", {"data-src"}, UrlSkip, EmptyUrl, EmptyUrl, EmptyUrl)
ImgEmpty == El("IMG", {"data-src"}, EmptyUrl, EmptyUrl, EmptyUrl, EmptyUrl)
ImgBoth == El("IMG", {"data-src", "data-bg"}, UrlA, EmptyUrl, UrlB, EmptyUrl)
ImgPlain == El("IMG", {}, EmptyUrl, EmptyUrl, EmptyUrl, UrlLogo)
DivBg == El("DIV", {"data-bg"}, EmptyUrl, EmptyUrl, UrlB, EmptyUrl)
DivBgSkip == El("DIV", {"data-bg"}, EmptyUrl, EmptyUrl, UrlCdnSkip, EmptyUrl)

\* An image that also carries a small-screen variant of its source, in an
\* attribute the loader never reads.
ImgResp == El("IMG", {"data-src", "data-src-mobile"}, UrlA, EmptyUrl, EmptyUrl, EmptyUrl)
dataSrcMobile(el) == IF "data-src-mobile" \in el.attrs THEN UrlMobile ELSE EmptyUrl

\* An image whose source does not exist: its probe can only fire error.
ImgBroken == El("IMG", {"data-src"}, UrlBroken, EmptyUrl, EmptyUrl, EmptyUrl)

\* The documents the loader is run on, elements in document order.
SinglePages ==
  {<<ImgA>>, <<ImgLazy>>, <<ImgSkip>>, <<ImgEmpty>>, <<ImgPlain>>, <<DivBg>>, <<DivBgSkip>>,
   <<ImgResp>>}
MixedPages == {<<ImgBoth>>, <<ImgSkip, ImgLazy>>}
BatchPages ==
  {<<ImgA, ImgLazy, DivBg>>, <<ImgEmpty, ImgSkip, DivBg>>, <<ImgBroken, ImgBroken, DivBg>>,
   <<DivBg, ImgBoth, ImgA>>}

Widths == {mobileBreakpoint, mobileBreakpoint + 1}
Banners == {"absent", "complete", "loading"}

\* A page load: the document, the banner and the width at script start.
\* Single-element documents are loaded with every banner and width; the
\* documents with several tasks are loaded without a banner, the batch
\* documents on a wide viewport only.
Scenarios ==
  {[page |-> p, banner |-> b, innerWidth |-> w] :
     p \in SinglePages, b \in Banners, w \in Widths}
    \cup {[page |-> p, banner |-> "absent", innerWidth |-> w] :
            p \in MixedPages, w \in Widths}
    \cup {[page |-> p, banner |-> "absent", innerWidth |-> mobileBreakpoint + 1] :
            p \in BatchPages}

Interactions == {"scroll", "touchstart", "mousemove", "keydown"}
Outcomes == {"load", "error"}
\* The events a probe of the source can fire.
Fires(src) == IF src = UrlBroken THEN {"error"} ELSE Outcomes
PoolIds == {"init", "branch", "tail"}
Owners == PoolIds \cup {"free"}
Kinds == {"img", "bg"}
ElemIds == {1, 2, 3}

VARIABLES
  page,            \* the document: tag and deferred attribute values per element
  banner,          \* the banner element: absent, complete, or still loading
  innerWidth,      \* window.innerWidth
  near,            \* per element: within the visibility margin of the viewport
  markers,         \* per element: the deferred attributes still present
  nativeSrc,       \* per element: the src property
  bgImage,         \* per element: style.backgroundImage
  pc,              \* position of init()
  tasks,           \* init's task list, built before the banner wait
  bannerDone,      \* waitForBannerLoaded's promise has been resolved
  bannerTimer,     \* the banner timeout is pending
  bannerFired,     \* the banner image has fired its load or error event
  resolveCalls,    \* how often waitForBannerLoaded called resolve()
  observed,        \* elements the IntersectionObserver observes
  ioQueue,         \* elements with a queued, undelivered observer entry
  imgsToObserve,   \* snapshot of img[data-src], img[data-lazy] (narrow path)
  bgsToObserve,    \* snapshot of [data-bg] (narrow path)
  sweepTimer,      \* the 50 ms visibility sweep is pending
  pageshowOn,      \* the pageshow listener is registered
  handlers,        \* first-interaction handlers still registered
  pool,            \* per runPool call: state, task queue, inFlight, pending next() timers
  probes,          \* bag of pending detached probe images
  fired,           \* <<element, kind, source>> of the probes that have fired load or error
  passes,          \* scan-and-load passes run by first-interaction handlers
  everWide         \* the viewport has been wider than the breakpoint since script start

\* The tab switcher's state.
VARIABLES
  tabs,            \* the .policy-tab controls in document order: data-target
  sections,        \* the ids of the sections under .policy-content, in order
  entryHash,       \* location.hash when the page was loaded
  locationHash,    \* location.hash
  hidden,          \* sections carrying policy-hidden
  active,          \* controls carrying policy-active
  tabPc,           \* the DOMContentLoaded handler: not run, listening, or inert
  historyLen,      \* entries of the session history
  lastThrew,       \* the latest history.replaceState call threw
  clicks           \* clicks on controls so far

loaderVars ==
  <<page, banner, innerWidth, near, markers, nativeSrc, bgImage, pc, tasks,
    bannerDone, bannerTimer, bannerFired, resolveCalls, observed, ioQueue,
    imgsToObserve, bgsToObserve, sweepTimer, pageshowOn, handlers, pool,
    probes, fired, passes, everWide>>

tabVars ==
  <<tabs, sections, entryHash, locationHash, hidden, active, tabPc, historyLen,
    lastThrew, clicks>>

vars == <<loaderVars, tabVars>>

Elems == DOMAIN page

\* ------------------------------------------------------- pure helpers
Min(a, b) == IF a <= b THEN a ELSE b

\* String.prototype.includes on segment sequences.
Includes(u, s) ==
  \E i \in 0..(Len(u) - Len(s)) : SubSeq(u, i + 1, i + Len(s)) = s

\* cfg.mobileSkip.some(s => src.includes(s))
SkipMatch(u) == \E i \in DOMAIN mobileSkip : Includes(u, mobileSkip[i])

isMobile == innerWidth <= mobileBreakpoint

\* el.dataset.src || el.dataset.lazy ; the empty result stands for a falsy value
ImgSource_Responsive(e) ==
  IF isMobile /\ dataSrcMobile(page[e]) # EmptyUrl THEN dataSrcMobile(page[e])
  ELSE IF "data-src" \in markers[e] /\ page[e].dataSrc # EmptyUrl THEN page[e].dataSrc
  ELSE IF "data-lazy" \in markers[e] THEN page[e].dataLazy
  ELSE EmptyUrl
ImgSource(e) ==
  IF "data-src" \in markers[e] /\ page[e].dataSrc # EmptyUrl THEN page[e].dataSrc
  ELSE IF "data-lazy" \in markers[e] THEN page[e].dataLazy
  ELSE EmptyUrl

\* el.dataset.bg
BgSource(e) == IF "data-bg" \in markers[e] THEN page[e].dataBg ELSE EmptyUrl

Source(e, kind) == IF kind = "img" THEN ImgSource(e) ELSE BgSource(e)

\* `url("${src}")`
CssUrl(u) == <<"url(\"">> \o u \o <<"\")">>

\* querySelectorAll('img[data-src], img[data-lazy]')
QueryImgs ==
  {e \in Elems : page[e].tagName = "IMG" /\ markers[e] \cap {"data-src", "data-lazy"} # {}}

\* querySelectorAll('[data-bg]')
QueryBgs == {e \in Elems : "data-bg" \in markers[e]}

\* querySelectorAll('img[data-src], img[data-lazy], [data-bg]')
Remaining == QueryImgs \cup QueryBgs

\* The elements of a set of element indices, in document order.
RECURSIVE InOrder(_, _)
InOrder(S, n) ==
  IF n = 0 THEN << >>
  ELSE InOrder(S, n - 1) \o (IF n \in S THEN <<n>> ELSE << >>)

\* The tasks createTasks pushes for one selector result.
RECURSIVE TasksOf(_, _, _)
TasksOf(order, kind, mobile) ==
  IF order = << >> THEN << >>
  ELSE LET e == Head(order)
           src == Source(e, kind)
       IN (IF src = EmptyUrl \/ (mobile /\ SkipMatch(src)) THEN << >>
           ELSE << [el |-> e, kind |-> kind, src |-> src] >>)
          \o TasksOf(Tail(order), kind, mobile)

createTasks_BgFirst(mobile) ==
  TasksOf(InOrder(QueryBgs, Len(page)), "bg", mobile)
    \o TasksOf(InOrder(QueryImgs, Len(page)), "img", mobile)
createTasks(mobile) ==
  TasksOf(InOrder(QueryImgs, Len(page)), "img", mobile)
    \o TasksOf(InOrder(QueryBgs, Len(page)), "bg", mobile)

\* ------------------------------------------------------------- settling
\* The deferred attributes a load path removes once its probe has fired.
Removed_SrcOnly(kind) == IF kind = "img" THEN {"data-src"} ELSE {"data-bg"}
Removed(kind) == IF kind = "img" THEN {"data-src", "data-lazy"} ELSE {"data-bg"}

\* The continuation of preloadImage(src) in every load path.
SettledMarkers(e, kind) == [markers EXCEPT ![e] = @ \ Removed(kind)]
SettledSrc(e, kind, src) == IF kind = "img" THEN [nativeSrc EXCEPT ![e] = src] ELSE nativeSrc
SettledBg(e, kind, src) == IF kind = "bg" THEN [bgImage EXCEPT ![e] = CssUrl(src)] ELSE bgImage

\* preloadImage(url) creates a detached Image: a pending probe.  Starting
\* the probes S leaves the live elements' attributes as they are.
ProbedMarkers_Live(S) ==
  [e \in Elems |-> markers[e] \ UNION {Removed(pr.kind) : pr \in {q \in S : q.el = e}}]
ProbedMarkers(S) == markers
Probe(e, kind, src, owner) == [el |-> e, kind |-> kind, src |-> src, owner |-> owner]

\* img.onload = img.onerror = () => resolve(): the events that resolve
\* the promise of preloadImage.
Resolves_LoadOnly(outcome) == outcome = "load"
Resolves(outcome) == outcome \in {"load", "error"}

\* --------------------------------------------------------------- runPool
IdlePool == [state |-> "idle", queue |-> << >>, inFlight |-> 0, timers |-> 0]

\* How many tasks the while loop of next() starts.
StartCount_NoCap(r) == Min(concurrency, Len(r.queue))
StartCount(r) ==
  IF r.inFlight < concurrency THEN Min(concurrency - r.inFlight, Len(r.queue)) ELSE 0

\* next(): resolve when nothing is queued or in flight, else start tasks.
next_NoResolve(r) ==
  [r EXCEPT !.queue = SubSeq(@, StartCount(r) + 1, Len(@)),
            !.inFlight = @ + StartCount(r)]
next(r) ==
  IF Len(r.queue) = 0 /\ r.inFlight = 0 THEN [r EXCEPT !.state = "resolved"]
  ELSE [r EXCEPT !.queue = SubSeq(@, StartCount(r) + 1, Len(@)),
                 !.inFlight = @ + StartCount(r)]

\* The probes that call of next() starts, for the pool `owner`.
Started(r, owner) ==
  SetToBag({Probe(r.queue[i].el, r.queue[i].kind, r.queue[i].src, owner) :
            i \in 1..StartCount(r)})

\* runPool(tasks) up to its first return to the event loop.
NewPool(q) == [state |-> "running", queue |-> q, inFlight |-> 0, timers |-> 0]
runPool(q) == next(NewPool(q))

\* ----------------------------------------------------- event loop order
\* An await whose promise is resolved resumes before any other task runs.
BannerAwaited_NoWait == pc = "awaitBanner"
BannerAwaited == pc = "awaitBanner" /\ bannerDone
PoolAwaited == pc = "awaitPool" /\ pool["init"].state = "resolved"
Idle == ~BannerAwaited /\ ~PoolAwaited

\* ------------------------------------------------------------------ Init
LoaderInit(S) ==
  /\ \E sc \in S :
       page = sc.page /\ banner = sc.banner /\ innerWidth = sc.innerWidth
  /\ near = [e \in DOMAIN page |-> FALSE]
  /\ markers = [e \in DOMAIN page |-> page[e].attrs]
  /\ nativeSrc = [e \in DOMAIN page |-> page[e].src]
  /\ bgImage = [e \in DOMAIN page |-> EmptyUrl]
  /\ pc = "notStarted"
  /\ tasks = << >>
  /\ bannerDone = FALSE
  /\ bannerTimer = FALSE
  /\ bannerFired = FALSE
  /\ resolveCalls = 0
  /\ observed = {}
  /\ ioQueue = {}
  /\ imgsToObserve = {}
  /\ bgsToObserve = {}
  /\ sweepTimer = FALSE
  /\ pageshowOn = FALSE
  /\ handlers = {}
  /\ pool = [p \in PoolIds |-> IdlePool]
  /\ probes = EmptyBag
  /\ fired = {}
  /\ passes = 0
  /\ everWide = ~isMobile

\* A page without tab controls or sections: the switcher has nothing to do.
NoTabs ==
  /\ tabs = << >>
  /\ sections = << >>
  /\ entryHash = << >>
  /\ locationHash = << >>
  /\ hidden = {}
  /\ active = {}
  /\ tabPc = "loading"
  /\ historyLen = 1
  /\ lastThrew = FALSE
  /\ clicks = 0

Init == LoaderInit(Scenarios) /\ NoTabs

domVars == <<markers, nativeSrc, bgImage>>
bannerVars == <<bannerDone, bannerTimer, bannerFired, resolveCalls>>
observerVars == <<observed, ioQueue, imgsToObserve, bgsToObserve, sweepTimer, pageshowOn>>
envVars == <<page, banner, innerWidth, near, everWide>>

\* ------------------------------------------------- waitForBannerLoaded
\* finish(): the calls of resolve() it makes, given the `done` flag.
FinishCalls_NoGuard(done) == 1
FinishCalls(done) == IF done THEN 0 ELSE 1

\* init() up to `await waitForBannerLoaded()`.
InitStart ==
  /\ pc = "notStarted"
  /\ pc' = "awaitBanner"
  /\ tasks' = createTasks(isMobile)
  /\ IF banner \in {"absent", "complete"}
     THEN /\ bannerDone' = TRUE
          /\ resolveCalls' = resolveCalls + 1
          /\ bannerTimer' = FALSE
     ELSE /\ bannerDone' = FALSE
          /\ resolveCalls' = resolveCalls
          /\ bannerTimer' = TRUE
  /\ UNCHANGED <<tabVars, envVars, domVars, bannerFired, observerVars, handlers, pool,
                 probes, fired, passes>>

\* The banner image fires load or error: finish().
BannerFire(ev) ==
  /\ Idle
  /\ pc # "notStarted"
  /\ banner = "loading"
  /\ ~bannerFired
  /\ bannerFired' = TRUE
  /\ bannerDone' = TRUE
  /\ resolveCalls' = resolveCalls + FinishCalls(bannerDone)
  /\ UNCHANGED <<tabVars, envVars, domVars, pc, tasks, bannerTimer, observerVars,
                 handlers, pool, probes, fired, passes>>

\* setTimeout(finish, timeout) fires.
BannerTimeout ==
  /\ Idle
  /\ bannerTimer
  /\ bannerTimer' = FALSE
  /\ bannerDone' = TRUE
  /\ resolveCalls' = resolveCalls + FinishCalls(bannerDone)
  /\ UNCHANGED <<tabVars, envVars, domVars, pc, tasks, bannerFired, observerVars,
                 handlers, pool, probes, fired, passes>>

\* ------------------------------------------------------- init, resumed
\* onFirstInteraction is called at two places on either path, each behind
\* its own `remaining.length` test of the same document.
Registered == IF Remaining # {} THEN {"branch", "tail"} ELSE {}

\* The elements io.observe is called on.
ToObserve ==
  {e \in QueryImgs : ~SkipMatch(ImgSource(e))}
    \cup {e \in QueryBgs : ~SkipMatch(BgSource(e))}

\* init() after the banner wait, narrow viewport: observer, sweep timer,
\* pageshow listener and the first-interaction handlers.
InitMobile ==
  /\ BannerAwaited
  /\ isMobile
  /\ pc' = "done"
  /\ imgsToObserve' = QueryImgs
  /\ bgsToObserve' = QueryBgs
  /\ observed' = ToObserve
  /\ ioQueue' = ToObserve
  /\ sweepTimer' = TRUE
  /\ pageshowOn' = TRUE
  /\ handlers' = Registered
  /\ UNCHANGED <<tabVars, envVars, domVars, tasks, bannerVars, pool, probes, fired, passes>>

\* init() after the banner wait, wide viewport: `await runPool(tasks)`.
InitDesktop ==
  /\ BannerAwaited
  /\ ~isMobile
  /\ pc' = "awaitPool"
  /\ pool' = [pool EXCEPT !["init"] = runPool(tasks)]
  /\ probes' = probes (+) Started(NewPool(tasks), "init")
  /\ markers' = ProbedMarkers(BagToSet(Started(NewPool(tasks), "init")))
  /\ UNCHANGED <<tabVars, envVars, nativeSrc, bgImage, tasks, bannerVars, observerVars, handlers,
                 fired, passes>>

\* init() after `await runPool(tasks)`: the first-interaction handlers.
InitAfterPool ==
  /\ PoolAwaited
  /\ pc' = "done"
  /\ handlers' = Registered
  /\ UNCHANGED <<tabVars, envVars, domVars, tasks, bannerVars, observerVars, pool,
                 probes, fired, passes>>

\* ------------------------------------------------------------ the pools
\* A setTimeout(next, delayBetweenBatches) of pool p fires.
PoolTimer(p) ==
  /\ Idle
  /\ pool[p].timers > 0
  /\ LET r == [pool[p] EXCEPT !.timers = @ - 1]
     IN /\ pool' = [pool EXCEPT ![p] = next(r)]
        /\ probes' = probes (+) Started(r, p)
        /\ markers' = ProbedMarkers(BagToSet(Started(r, p)))
  /\ UNCHANGED <<tabVars, envVars, nativeSrc, bgImage, pc, tasks, bannerVars, observerVars,
                 handlers, fired, passes>>

\* The pools a first interaction starts: every registered handler runs
\* createTasks and, when the list is not empty, runPool.
HandlerPool(h, q) == IF h \in handlers /\ q # << >> THEN runPool(q) ELSE pool[h]
HandlerProbes(h, q) ==
  IF h \in handlers /\ q # << >> THEN Started(NewPool(q), h) ELSE EmptyBag

\* The first scroll, touchstart, mousemove or keydown after registration.
UserInteraction(kind) ==
  /\ Idle
  /\ handlers # {}
  /\ LET q == createTasks(isMobile)
     IN /\ pool' = [pool EXCEPT !["branch"] = HandlerPool("branch", q),
                                !["tail"] = HandlerPool("tail", q)]
        /\ probes' = probes (+) HandlerProbes("branch", q) (+) HandlerProbes("tail", q)
        /\ markers' = ProbedMarkers(BagToSet(HandlerProbes("branch", q)
                                               (+) HandlerProbes("tail", q)))
  /\ passes' = passes + Cardinality(handlers)
  /\ handlers' = {}
  /\ UNCHANGED <<tabVars, envVars, nativeSrc, bgImage, pc, tasks, bannerVars, observerVars, fired>>

\* ----------------------------------------------------------- the probes
\* What a probe's continuation does besides settling the element.
AfterProbePool_NoNext(pr) ==
  IF pr.owner \in PoolIds THEN [pool EXCEPT ![pr.owner].inFlight = @ - 1] ELSE pool
AfterProbePool(pr) ==
  IF pr.owner \in PoolIds
  THEN [pool EXCEPT ![pr.owner].inFlight = @ - 1, ![pr.owner].timers = @ + 1]
  ELSE pool
AfterProbeObserved(pr) == IF pr.owner = "free" THEN observed \ {pr.el} ELSE observed

\* A probe image fires load or error; when the event resolves the promise,
\* its continuation settles the element.
ProbeFire(pr, outcome) ==
  /\ Idle
  /\ BagIn(pr, probes)
  /\ probes' = probes (-) SetToBag({pr})
  /\ IF Resolves(outcome)
     THEN /\ markers' = SettledMarkers(pr.el, pr.kind)
          /\ nativeSrc' = SettledSrc(pr.el, pr.kind, pr.src)
          /\ bgImage' = SettledBg(pr.el, pr.kind, pr.src)
          /\ fired' = fired \cup {<<pr.el, pr.kind, pr.src>>}
          /\ pool' = AfterProbePool(pr)
          /\ observed' = AfterProbeObserved(pr)
     ELSE UNCHANGED <<markers, nativeSrc, bgImage, fired, pool, observed>>
  /\ UNCHANGED <<tabVars, envVars, pc, tasks, bannerVars, ioQueue, imgsToObserve, bgsToObserve,
                 sweepTimer, pageshowOn, handlers, passes>>

\* --------------------------------------------------------- the observer
KindOf(e) == IF page[e].tagName = "IMG" THEN "img" ELSE "bg"

CanProbe(pr) == CopiesIn(pr, probes) < MaxFreeProbes

\* The IntersectionObserver callback for one entry; the entry reports the
\* element's position at delivery.  unobserve does not withdraw an entry
\* that is already queued.
IoCallback(e) ==
  /\ Idle
  /\ e \in ioQueue
  /\ ioQueue' = ioQueue \ {e}
  /\ LET src == Source(e, KindOf(e))
         pr == Probe(e, KindOf(e), src, "free")
     IN IF ~near[e] THEN UNCHANGED <<observed, probes, markers>>
        ELSE IF src = EmptyUrl \/ SkipMatch(src)
             THEN observed' = observed \ {e} /\ UNCHANGED <<probes, markers>>
             ELSE /\ CanProbe(pr)
                  /\ probes' = probes (+) SetToBag({pr})
                  /\ markers' = ProbedMarkers({pr})
                  /\ UNCHANGED observed
  /\ UNCHANGED <<tabVars, envVars, nativeSrc, bgImage, pc, tasks, bannerVars, imgsToObserve,
                 bgsToObserve, sweepTimer, pageshowOn, handlers, pool, fired, passes>>

\* The probes one visibility pass starts over the two snapshots.
SweepProbes_All ==
  {Probe(e, "img", ImgSource(e), "free") :
     e \in {x \in imgsToObserve : ImgSource(x) # EmptyUrl}}
    \cup {Probe(e, "bg", BgSource(e), "free") :
            e \in {x \in bgsToObserve : BgSource(x) # EmptyUrl}}
SweepProbes ==
  {Probe(e, "img", ImgSource(e), "free") :
     e \in {x \in imgsToObserve : near[x] /\ ImgSource(x) # EmptyUrl}}
    \cup {Probe(e, "bg", BgSource(e), "free") :
            e \in {x \in bgsToObserve : near[x] /\ BgSource(x) # EmptyUrl}}

\* The setTimeout(..., 50) pass.
Sweep ==
  /\ Idle
  /\ sweepTimer
  /\ \A pr \in SweepProbes : CanProbe(pr)
  /\ sweepTimer' = FALSE
  /\ probes' = probes (+) SetToBag(SweepProbes)
  /\ markers' = ProbedMarkers(SweepProbes)
  /\ UNCHANGED <<tabVars, envVars, nativeSrc, bgImage, pc, tasks, bannerVars, observed, ioQueue,
                 imgsToObserve, bgsToObserve, pageshowOn, handlers, pool, fired, passes>>

\* The pageshow listener.
PageShow ==
  /\ Idle
  /\ pageshowOn
  /\ \A pr \in SweepProbes : CanProbe(pr)
  /\ probes' = probes (+) SetToBag(SweepProbes)
  /\ markers' = ProbedMarkers(SweepProbes)
  /\ UNCHANGED <<tabVars, envVars, nativeSrc, bgImage, pc, tasks, bannerVars, observerVars,
                 handlers, pool, fired, passes>>

\* ------------------------------------------------------- the environment
\* Scrolling or layout moves an element into or out of the margin.  Only
\* the narrow path reads positions, and only once it is set up.
Move(e) ==
  /\ Idle
  /\ pageshowOn
  /\ near' = [near EXCEPT ![e] = ~@]
  /\ ioQueue' = IF e \in observed THEN ioQueue \cup {e} ELSE ioQueue
  /\ UNCHANGED <<tabVars, page, banner, innerWidth, everWide, domVars, pc, tasks, bannerVars,
                 observed, imgsToObserve, bgsToObserve, sweepTimer, pageshowOn,
                 handlers, pool, probes, fired, passes>>

\* The window is resized across the breakpoint.  The width is read by
\* createTasks and by init after the banner wait; before the script starts
\* the width is Init's choice, and no one reads it once the
\* first-interaction handlers have run.
Resize ==
  /\ Idle
  /\ pc = "awaitBanner" \/ handlers # {}
  /\ innerWidth' \in Widths \ {innerWidth}
  /\ everWide' = (everWide \/ innerWidth' > mobileBreakpoint)
  /\ UNCHANGED <<tabVars, page, banner, near, domVars, pc, tasks, bannerVars,
                 observerVars, handlers, pool, probes, fired, passes>>

Next ==
  \/ InitStart
  \/ \E ev \in Outcomes : BannerFire(ev)
  \/ BannerTimeout
  \/ InitMobile
  \/ InitDesktop
  \/ InitAfterPool
  \/ \E p \in PoolIds : PoolTimer(p)
  \/ \E kind \in Interactions : UserInteraction(kind)
  \/ \E pr \in BagToSet(probes) : \E outcome \in Fires(pr.src) : ProbeFire(pr, outcome)
  \/ \E e \in Elems : IoCallback(e)
  \/ Sweep
  \/ PageShow
  \/ \E e \in Elems : Move(e)
  \/ Resize

Spec == Init /\ [][Next]_vars

\* The event loop runs every resumed await and every timer callback, and
\* every probe image eventually fires load or error.  User input, pageshow, resizing, scrolling
\* and the banner's own load or error event may never happen.
PoolProbeFire(p) ==
  \E pr \in BagToSet(probes) : \E outcome \in Fires(pr.src) :
    pr.owner = p /\ ProbeFire(pr, outcome)

Fairness ==
  /\ WF_vars(InitStart)
  /\ WF_vars(BannerTimeout)
  /\ WF_vars(InitMobile)
  /\ WF_vars(InitDesktop)
  /\ WF_vars(InitAfterPool)
  /\ WF_vars(Sweep)
  /\ \A p \in PoolIds : WF_vars(PoolTimer(p))
  /\ \A p \in Owners : WF_vars(PoolProbeFire(p))

FairSpec == Spec /\ Fairness

\* ====================================================================
\* The tab switcher
\* ====================================================================
\* Identifiers and fragments are sequences of tokens; "#" is a token.
Terms == <<"terms">>
Privacy == <<"privacy">>
Cookies == <<"cookies">>
UnknownTab == <<"unknown-tab">>
NoId == << >>

\* A .policy-tab control: whether it has a data-target, and its value.
Tab(t) == [has |-> TRUE, target |-> t]
TabNoTarget == [has |-> FALSE, target |-> NoId]

\* The policy pages the switcher is run on.
Layouts ==
  { [tabs |-> <<Tab(Terms), Tab(Privacy), Tab(Cookies)>>,
     sections |-> <<Terms, Privacy, Cookies>>],
    [tabs |-> <<Tab(Privacy), Tab(Cookies)>>,
     sections |-> <<Privacy, Cookies>>],
    [tabs |-> <<Tab(Terms), Tab(Privacy), Tab(Cookies)>>,
     sections |-> <<Terms, Privacy>>],
    [tabs |-> <<Tab(Terms), Tab(Privacy), Tab(Privacy)>>,
     sections |-> <<Terms, Privacy>>],
    [tabs |-> <<Tab(Terms), TabNoTarget, Tab(Privacy)>>,
     sections |-> <<Terms, Privacy, NoId>>],
    [tabs |-> << >>,
     sections |-> <<Terms, Privacy>>] }

\* location.hash at load: empty, or "#" and the fragment.
EntryHashes ==
  {<< >>, <<"#">> \o Terms, <<"#">> \o Privacy, <<"#">> \o Cookies, <<"#">> \o UnknownTab}

\* The markers the page's markup carries at load: none, or all sections
\* but the first hidden and the first control active.
Markups == {"bare", "firstShown"}

\* The most clicks followed in one page load.
MaxClicks == 3

TabIds == {1, 2, 3}

\* (location.hash || '').replace('#', ''): the first "#" is removed.
RECURSIVE RemoveFirst(_, _)
RemoveFirst(h, tok) ==
  IF h = << >> THEN << >>
  ELSE IF Head(h) = tok THEN Tail(h)
  ELSE <<Head(h)>> \o RemoveFirst(Tail(h), tok)

HashFragment_Raw(h) == h
HashFragment(h) == RemoveFirst(h, "#")

\* tabs.map(t => t.dataset.target): the strings among them.
Available == {tabs[i].target : i \in {j \in DOMAIN tabs : tabs[j].has}}

\* const initial = available.includes(hash) ? hash : 'terms'
Initial ==
  IF HashFragment(locationHash) \in Available THEN HashFragment(locationHash) ELSE Terms

\* showTab(id): the sections left with policy-hidden.
ShownHidden_KeepOthers(id) == hidden \ {i \in DOMAIN sections : sections[i] = id}
ShownHidden(id) == {i \in DOMAIN sections : sections[i] # id}

\* showTab(id): the controls left with policy-active.
ShownActive_AddOnly(id) ==
  active \cup {i \in DOMAIN tabs : tabs[i].has /\ tabs[i].target = id}
ShownActive(id) == {i \in DOMAIN tabs : tabs[i].has /\ tabs[i].target = id}

\* history.replaceState(null, '', '#' + id) inside try/catch: the entry is
\* replaced, or the call throws and the URL stays.
ReplacedHash(id, ok) == IF ok THEN <<"#">> \o id ELSE locationHash
HistoryAfter(n, ok) == n

showTab(id, ok) ==
  /\ hidden' = ShownHidden(id)
  /\ active' = ShownActive(id)
  /\ locationHash' = ReplacedHash(id, ok)
  /\ historyLen' = HistoryAfter(historyLen, ok)
  /\ lastThrew' = ~ok

\* if(t): a data-target that is present and not the empty string.
Truthy(tab) == tab.has /\ tab.target # NoId

TabInit ==
  /\ LoaderInit({[page |-> <<ImgPlain>>, banner |-> "absent",
                  innerWidth |-> mobileBreakpoint + 1]})
  /\ \E lay \in Layouts, h \in EntryHashes, m \in Markups :
       /\ tabs = lay.tabs
       /\ sections = lay.sections
       /\ entryHash = h
       /\ locationHash = h
       /\ hidden = IF m = "bare" THEN {} ELSE DOMAIN lay.sections \ {1}
       /\ active = IF m = "bare" THEN {} ELSE DOMAIN lay.tabs \cap {1}
  /\ tabPc = "loading"
  /\ historyLen = 1
  /\ lastThrew = FALSE
  /\ clicks = 0

\* The DOMContentLoaded handler: without controls it returns; otherwise it
\* registers the click listeners and shows the initial tab.
TabsReady ==
  /\ tabPc = "loading"
  /\ IF tabs = << >>
     THEN /\ tabPc' = "inert"
          /\ UNCHANGED <<hidden, active, locationHash, historyLen, lastThrew>>
     ELSE /\ tabPc' = "listening"
          /\ \E ok \in BOOLEAN : showTab(Initial, ok)
  /\ UNCHANGED <<loaderVars, tabs, sections, entryHash, clicks>>

\* A click on control i: showTab(t) when its data-target is truthy.
Click(i) ==
  /\ tabPc = "listening"
  /\ i \in DOMAIN tabs
  /\ clicks < MaxClicks
  /\ clicks' = clicks + 1
  /\ IF Truthy(tabs[i])
     THEN \E ok \in BOOLEAN : showTab(tabs[i].target, ok)
     ELSE UNCHANGED <<hidden, active, locationHash, historyLen, lastThrew>>
  /\ UNCHANGED <<loaderVars, tabs, sections, entryHash, tabPc>>

TabNext ==
  \/ TabsReady
  \/ \E i \in TabIds : Click(i)

TabSpec == TabInit /\ [][TabNext]_vars


\* ====================================================================
\* Properties
\* ====================================================================
Untouched(e) ==
  markers[e] = page[e].attrs /\ nativeSrc[e] = page[e].src /\ bgImage[e] = EmptyUrl

\* C1: while the promise of waitForBannerLoaded is unresolved, no element
\* has had its src or background-image assigned or a deferred marker
\* removed, and no probe has been started, on either path.
C1_NothingBeforeBanner ==
  ~bannerDone => (probes = EmptyBag /\ \A e \in Elems : Untouched(e))

\* The banner was awaited, resolved, and an element was settled afterwards.
C1_Witness ==
  banner = "loading" /\ bannerDone /\ \E e \in Elems : nativeSrc[e] # page[e].src

\* C2: an element's src or background-image is written, and its markers are
\* removed, only by a probe of that element, kind and source that has fired
\* load or error.
C2_SettledOnlyAfterProbe ==
  \A e \in Elems :
    /\ nativeSrc[e] # page[e].src => <<e, "img", nativeSrc[e]>> \in fired
    /\ bgImage[e] # EmptyUrl =>
         \E f \in fired : f[1] = e /\ f[2] = "bg" /\ bgImage[e] = CssUrl(f[3])
    /\ \A k \in Kinds :
         (page[e].attrs \cap Removed(k)) \ markers[e] # {} =>
           \E f \in fired : f[1] = e /\ f[2] = k

\* A background element has been settled.
C2_Witness ==
  \E e \in Elems : bgImage[e] # EmptyUrl /\ "data-bg" \notin markers[e]

\* The element has a deferred source that matches a skip substring.
SkipElem(e) ==
  SkipMatch(page[e].dataSrc) \/ SkipMatch(page[e].dataLazy) \/ SkipMatch(page[e].dataBg)

\* C3: while the viewport has been narrow throughout, an element whose
\* source contains a skip substring is never assigned a source and is never
\* in the observer set.
C3_SkippedOnNarrow ==
  ~everWide =>
    \A e \in Elems :
      SkipElem(e) =>
        nativeSrc[e] = page[e].src /\ bgImage[e] = EmptyUrl /\ e \notin observed

\* Nothing is pending: no probe, no pool, no timer, no observer entry.
Quiescent ==
  /\ probes = EmptyBag
  /\ \A p \in PoolIds : pool[p].state # "running"
  /\ ~sweepTimer
  /\ ioQueue = {}

InQuery(e, k) == IF k = "img" THEN e \in QueryImgs ELSE e \in QueryBgs

\* Element e is deferred for kind k with a non-empty source to load.
Loadable(e, k) == e \in Elems /\ InQuery(e, k) /\ Source(e, k) # EmptyUrl

\* C4: once the first interaction has run the fallback and every probe has
\* fired, with nothing left pending, no element is still deferred with a
\* source to load.
C4_NoneLeftDeferred ==
  (passes > 0 /\ Quiescent) => \A e \in Elems, k \in Kinds : ~Loadable(e, k)

\* C5: the first user interaction runs exactly one scan-and-load pass per
\* page load.
C5_ExactlyOnePass == passes <= 1

\* C6: waitForBannerLoaded calls resolve exactly once: at once when the
\* banner is absent or complete (no timer is set), otherwise at the first of
\* the banner's load or error event and the timeout, and not before; the
\* wait always completes and init goes on.
C6_BannerWaitResolvesOnce ==
  /\ [](resolveCalls <= 1 /\ (bannerDone <=> resolveCalls = 1))
  /\ [](banner # "loading" => ~bannerTimer /\ (pc # "notStarted" => bannerDone))
  /\ []((banner = "loading" /\ pc # "notStarted") =>
          (bannerDone <=> (bannerFired \/ ~bannerTimer)))
  /\ <>(bannerDone /\ pc \in {"awaitPool", "done"})

\* The banner fired and the timeout ran as well: resolve was called once.
C6_Witness ==
  banner = "loading" /\ bannerFired /\ ~bannerTimer /\ resolveCalls = 1

\* C7: an observer callback that starts a probe for an element has stopped
\* observing that element by the time the probe is pending.
C7_UnobservedBeforeProbe ==
  [][\A e \in ElemIds :
       (e \in Elems /\ IoCallback(e) /\ probes' # probes) => e \notin observed']_vars

\* C8 as claimed: once the loader has assigned an element's src or
\* background-image, no deferred marker of any kind remains on it.
C8_NoMarkerAfterSettling ==
  \A e \in Elems :
    (nativeSrc[e] # page[e].src \/ bgImage[e] # EmptyUrl) => markers[e] = {}

\* C8 as amended: once the loader has assigned an element's src, neither
\* data-src nor data-lazy remains on it, and once it has assigned its
\* background-image, data-bg does not remain; the marker of the other kind
\* stays until its own load path has run.
C8_KindMarkersRemoved ==
  \A e \in Elems :
    /\ nativeSrc[e] # page[e].src => markers[e] \cap {"data-src", "data-lazy"} = {}
    /\ bgImage[e] # EmptyUrl => "data-bg" \notin markers[e]

\* An element carrying both kinds has its src assigned, data-src removed
\* and data-bg still set.
C8_Witness ==
  \E e \in Elems :
    page[e].attrs = {"data-src", "data-bg"} /\ nativeSrc[e] = UrlA
      /\ markers[e] = {"data-bg"}

\* C9: a scan-and-load pass over a document in which no element carries a
\* deferred marker builds an empty task list, starts no probe, changes no
\* element and leaves no pool running; run by both handlers in turn it
\* leaves the same state.  runPool of the empty list resolves at once.
C9_SettledPassIsNoop ==
  [][/\ (Remaining = {} /\ passes' # passes) =>
          /\ createTasks(isMobile) = << >>
          /\ probes' = probes
          /\ UNCHANGED <<markers, nativeSrc, bgImage>>
          /\ \A p \in PoolIds : pool'[p].state # "running"
     /\ (Remaining = {} /\ pc = "notStarted" /\ pc' # pc) => tasks' = << >>
     /\ (Remaining = {} /\ pc = "awaitBanner" /\ pc' = "awaitPool") =>
          /\ pool'["init"].state = "resolved"
          /\ probes' = probes
          /\ UNCHANGED <<markers, nativeSrc, bgImage>>]_vars

\* Both handlers ran their pass after the only element had been settled.
C9_Witness ==
  page = <<ImgA>> /\ passes = 2 /\ Remaining = {}
    /\ pool["branch"].state = "idle" /\ pool["tail"].state = "idle"

\* C10 as claimed: once init has run, on either path, a pageshow listener
\* is registered whose pass schedules every element that still carries a
\* deferred marker.
C10_PageshowRescansAll ==
  pc = "done" =>
    \A e \in Remaining : pageshowOn /\ \E pr \in SweepProbes : pr.el = e

InSnapshot(e, k) == IF k = "img" THEN e \in imgsToObserve ELSE e \in bgsToObserve

\* C10 as amended: a pageshow listener exists on the narrow path only; its
\* pass starts one probe for exactly the elements captured at observer
\* registration that are within the visibility margin and still have a
\* non-empty deferred source, and touches nothing else.
C10_PageshowSweepsNear ==
  [][PageShow =>
       /\ pool["init"].state = "idle"
       /\ UNCHANGED <<markers, nativeSrc, bgImage, observed, pool>>
       /\ \A e \in ElemIds, k \in Kinds :
            e \in Elems =>
              LET pr == Probe(e, k, Source(e, k), "free")
              IN (CopiesIn(pr, probes') = CopiesIn(pr, probes) + 1)
                   <=> (InSnapshot(e, k) /\ near[e] /\ Source(e, k) # EmptyUrl)]_vars

\* Before the 50 ms sweep, a pageshow pass has started a probe for an
\* element the observer never observes and left a far element unscheduled.
C10_Witness ==
  /\ sweepTimer
  /\ \E pr \in BagToSet(probes) : pr.owner = "free" /\ SkipMatch(pr.src)
  /\ \E e \in Remaining : ~near[e] /\ \A pr \in BagToSet(probes) : pr.el # e

\* The source the element's attributes name for the wide viewport.
DesktopVariant(e) ==
  IF page[e].dataSrc # EmptyUrl THEN page[e].dataSrc ELSE page[e].dataLazy

\* C11 as claimed: when an image's src is written, the value is the
\* small-screen variant if the element has one and the viewport is at or
\* below the breakpoint, and the wide-viewport variant otherwise.
C11_ResponsiveSource ==
  [][\A e \in ElemIds :
       (e \in Elems /\ nativeSrc'[e] # nativeSrc[e]) =>
         nativeSrc'[e] =
           (IF isMobile /\ dataSrcMobile(page[e]) # EmptyUrl
            THEN dataSrcMobile(page[e]) ELSE DesktopVariant(e))]_vars

\* C11 as amended: the source written on settling is data-src when it is
\* not empty and data-lazy otherwise, and the background written is
\* data-bg, at every viewport width; the value depends on the element's
\* attributes alone.
C11_SourceFromAttributes ==
  \A e \in Elems :
    /\ nativeSrc[e] # page[e].src => nativeSrc[e] = DesktopVariant(e)
    /\ bgImage[e] # EmptyUrl => bgImage[e] = CssUrl(page[e].dataBg)

\* On a viewport that has been narrow throughout, an image carrying a
\* small-screen variant was settled with its data-src value.
C11_Witness ==
  /\ ~everWide
  /\ \E e \in Elems :
       dataSrcMobile(page[e]) # EmptyUrl /\ nativeSrc[e] = page[e].dataSrc
         /\ nativeSrc[e] # page[e].src

\* What the continuation of a fired probe does to its element and pool.
SettlesLikeLoad(pr) ==
  /\ markers' = [markers EXCEPT ![pr.el] = @ \ Removed(pr.kind)]
  /\ IF pr.kind = "img"
     THEN nativeSrc'[pr.el] = pr.src /\ bgImage' = bgImage
     ELSE bgImage'[pr.el] = CssUrl(pr.src) /\ nativeSrc' = nativeSrc
  /\ probes' = probes (-) SetToBag({pr})
  /\ pr.owner \in PoolIds =>
       /\ pool'[pr.owner].inFlight = pool[pr.owner].inFlight - 1
       /\ pool'[pr.owner].timers = pool[pr.owner].timers + 1
       /\ pool'[pr.owner].queue = pool[pr.owner].queue
       /\ pool'[pr.owner].state = "running"

\* C12: a probe that fires error has the effect of one that fires load: the
\* element is settled with the probed source and its markers are removed,
\* the pool's in-flight count goes down by one and a next() call is
\* scheduled, no probe is started again for it, and the pool keeps running.
C12_ErrorSettlesLikeLoad ==
  [][\A pr \in BagToSet(probes) : \A outcome \in Outcomes :
       ProbeFire(pr, outcome) => SettlesLikeLoad(pr)]_vars

\* Both images of the batch could only fire error; the third task was
\* started afterwards, every element is settled and runPool has resolved.
C12_Witness ==
  /\ page = <<ImgBroken, ImgBroken, DivBg>>
  /\ nativeSrc[1] = UrlBroken /\ nativeSrc[2] = UrlBroken
  /\ bgImage[3] = CssUrl(UrlB)
  /\ Remaining = {}
  /\ pool["init"].state = "resolved"

\* The probes pending for element e and kind k, and those pool p owns.
Pending(e, k) == {pr \in BagToSet(probes) : pr.el = e /\ pr.kind = k}
RECURSIVE Copies(_)
Copies(S) ==
  IF S = {} THEN 0
  ELSE LET pr == CHOOSE x \in S : TRUE IN CopiesIn(pr, probes) + Copies(S \ {pr})
OwnedBy(p) == {pr \in BagToSet(probes) : pr.owner = p}
HasFired(e, k) == \E f \in fired : f[1] = e /\ f[2] = k

\* C16: each element's load path runs at most once: even before any
\* first-interaction pass, an element never has two probes of one kind
\* pending, and none once a probe of that kind has fired and settled it.
C16_LoadPathOnce ==
  passes = 0 =>
    \A e \in Elems, k \in Kinds :
      /\ Copies(Pending(e, k)) <= 1
      /\ HasFired(e, k) => Pending(e, k) = {}

\* C17: a pool's in-flight count is the number of its tasks started and
\* not finished, and lies between 0 and cfg.concurrency.
C17_InFlightBounded ==
  \A p \in PoolIds :
    /\ pool[p].inFlight = Copies(OwnedBy(p))
    /\ pool[p].inFlight >= 0
    /\ pool[p].inFlight <= concurrency

\* Two delayed next() calls were pending; the first has filled the pool
\* again and the second is still to run.
C17_Witness ==
  /\ pool["init"].inFlight = concurrency
  /\ pool["init"].timers > 0
  /\ pool["init"].queue = << >>
  /\ Len(tasks) = 4

\* Every task of init's list has been started and has finished.
AllTasksDone ==
  \A i \in DOMAIN tasks : <<tasks[i].el, tasks[i].kind, tasks[i].src>> \in fired

\* No runPool call is unresolved and init is not waiting for one.
PoolsSettled == pc # "awaitPool" /\ \A p \in PoolIds : pool[p].state # "running"

\* C18: given that every probe fires load or error, every runPool call
\* resolves, the call on the empty list at once, and stays resolved; when
\* a pool is resolved its queue is empty, nothing is in flight, and every
\* task of the list has been started and has finished.
C18_PoolResolves ==
  /\ [](\A p \in PoolIds :
          pool[p].state = "resolved" =>
            pool[p].queue = << >> /\ pool[p].inFlight = 0 /\ OwnedBy(p) = {})
  /\ [](pool["init"].state = "resolved" => AllTasksDone)
  /\ [](pc = "awaitPool" => pool["init"].state \in {"running", "resolved"})
  /\ [][(pc = "awaitBanner" /\ pc' = "awaitPool" /\ tasks = << >>) =>
          pool'["init"].state = "resolved"]_vars
  /\ [][\A p \in PoolIds :
          /\ pool[p].state = "running" => pool'[p].state \in {"running", "resolved"}
          /\ pool[p].state = "resolved" => pool'[p].state = "resolved"]_vars
  /\ <>[]PoolsSettled

\* runPool has resolved after four tasks, every one started and finished.
C18_Witness ==
  /\ Len(tasks) = 4
  /\ pool["init"].state = "resolved"
  /\ AllTasksDone
  /\ pc = "done"

\* Images come before backgrounds, and each kind is in document order.
ScanOrdered(q) ==
  \A i, j \in DOMAIN q :
    i < j =>
      \/ q[i].kind = "img" /\ q[j].kind = "bg"
      \/ q[i].kind = q[j].kind /\ q[i].el < q[j].el

\* The tasks of init's list that its pool has started.
StartedCount == Len(tasks) - Len(pool["init"].queue)

\* C19: the desktop batch is in scan order, the tasks not yet started are
\* a tail of the list, every task in flight or finished lies before them,
\* and each call of next() starts the head of the queue.
C19_StartedInScanOrder ==
  /\ [](pool["init"].state # "idle" =>
          /\ ScanOrdered(tasks)
          /\ pool["init"].queue = SubSeq(tasks, StartedCount + 1, Len(tasks))
          /\ \A pr \in OwnedBy("init") :
               \E i \in 1..StartedCount :
                 tasks[i] = [el |-> pr.el, kind |-> pr.kind, src |-> pr.src]
          /\ \A i \in DOMAIN tasks :
               <<tasks[i].el, tasks[i].kind, tasks[i].src>> \in fired => i <= StartedCount)
  /\ [][\A p \in PoolIds :
          (pool[p].state = "running" /\ pool'[p].queue # pool[p].queue) =>
            LET n == Len(pool[p].queue) - Len(pool'[p].queue)
            IN /\ n > 0
               /\ pool'[p].queue = SubSeq(pool[p].queue, n + 1, Len(pool[p].queue))
               /\ \A i \in 1..n :
                    BagIn(Probe(pool[p].queue[i].el, pool[p].queue[i].kind,
                                pool[p].queue[i].src, p), probes')]_vars

\* The second task of the batch has finished while the first is still in
\* flight and the rest are not yet started.
C19_Witness ==
  /\ Len(tasks) = 4
  /\ StartedCount = 2
  /\ <<tasks[2].el, tasks[2].kind, tasks[2].src>> \in fired
  /\ <<tasks[1].el, tasks[1].kind, tasks[1].src>> \notin fired
  /\ tasks[2].kind = "img" /\ tasks[3].kind = "bg" /\ tasks[3].el < tasks[2].el

\* C20: whenever init takes the wide-viewport branch after the banner
\* wait, its task list holds a task for every element still deferred with
\* a non-empty source, skip-matched sources included.
C20_BatchHoldsEveryElement ==
  [][InitDesktop =>
       \A e \in ElemIds, k \in Kinds :
         Loadable(e, k) =>
           \E i \in DOMAIN tasks :
             tasks[i] = [el |-> e, kind |-> k, src |-> Source(e, k)]]_vars

\* ------------------------------------------------------ the tab switcher
Visible == DOMAIN sections \ hidden
TargetOf(c) == tabs[c].target
WithTarget(id) == {c \in DOMAIN tabs : tabs[c].has /\ tabs[c].target = id}

\* The page has controls, section ids are unique, and every data-target a
\* control declares is the non-empty id of a section.
DeclaredTabs ==
  /\ tabs # << >>
  /\ \A i, j \in DOMAIN sections : sections[i] = sections[j] => i = j
  /\ \A c \in DOMAIN tabs :
       tabs[c].has =>
         TargetOf(c) # NoId /\ \E i \in DOMAIN sections : sections[i] = TargetOf(c)

\* C13 as claimed: for every initial fragment and every set of controls
\* with declared targets, after initialization and after any clicks
\* exactly one section is visible, and its id is the target of the active
\* control and the URL fragment (as long as replaceState has not thrown).
C13_OneVisibleMatching ==
  (tabPc # "loading" /\ DeclaredTabs /\ ~lastThrew) =>
    \E i \in DOMAIN sections :
      /\ Visible = {i}
      /\ active # {}
      /\ \A c \in active : tabs[c].has /\ TargetOf(c) = sections[i]
      /\ locationHash = <<"#">> \o sections[i]

\* Such a page on which some control declares the target 'terms'.
WellFormedTabs == DeclaredTabs /\ WithTarget(Terms) # {}

\* C13 as amended: on such a page, after initialization and after any
\* clicks exactly one section is visible, the controls carrying
\* policy-active are exactly those whose target is that section's id, and
\* the URL fragment is that id unless the latest replaceState call threw.
C13_OneVisibleWellFormed ==
  (tabPc # "loading" /\ WellFormedTabs) =>
    \E i \in DOMAIN sections :
      /\ Visible = {i}
      /\ active # {}
      /\ active = WithTarget(sections[i])
      /\ ~lastThrew => locationHash = <<"#">> \o sections[i]

\* After an unknown entry fragment and some clicks, the privacy section
\* alone is visible and the fragment names it.
C13_Witness ==
  /\ WellFormedTabs
  /\ entryHash = <<"#">> \o UnknownTab
  /\ clicks = 2
  /\ \E i \in DOMAIN sections : Visible = {i} /\ sections[i] = Privacy
  /\ locationHash = <<"#">> \o Privacy

\* C14 as claimed: a click on a control with target T while another
\* section is visible leaves section T without the hidden marker and every
\* other section with it, no section removed, exactly one control active,
\* and the fragment "#" T written without a new history entry.
C14_ClickActivates ==
  [][\A c \in TabIds :
       (/\ Click(c)
        /\ Truthy(tabs[c])
        /\ \E i \in DOMAIN sections : sections[i] = TargetOf(c)
        /\ \E i \in Visible : sections[i] # TargetOf(c)) =>
         /\ \E i \in DOMAIN sections : sections[i] = TargetOf(c) /\ i \notin hidden'
         /\ \A i \in DOMAIN sections : sections[i] # TargetOf(c) => i \in hidden'
         /\ sections' = sections
         /\ Cardinality(active') = 1
         /\ locationHash' = <<"#">> \o TargetOf(c)
         /\ historyLen' = historyLen]_vars

\* C14 as amended: after such a click the sections whose id is T lack the
\* hidden marker and every other section carries it, no section is
\* removed, exactly the controls whose target is T are active, no history
\* entry is added, and the fragment is "#" T unless replaceState threw, in
\* which case the URL is left as it was.
C14_ClickShowsTarget ==
  [][\A c \in TabIds :
       (Click(c) /\ Truthy(tabs[c])) =>
         /\ \A i \in DOMAIN sections : (i \in hidden') <=> (sections[i] # TargetOf(c))
         /\ sections' = sections
         /\ active' = WithTarget(TargetOf(c))
         /\ c \in active'
         /\ historyLen' = historyLen
         /\ locationHash' = IF lastThrew' THEN locationHash ELSE <<"#">> \o TargetOf(c)]_vars

\* Two controls share the target of the section just shown: both are active.
C14_Witness ==
  /\ clicks > 0
  /\ ~lastThrew
  /\ locationHash = <<"#">> \o Privacy
  /\ Cardinality(active) = 2
  /\ \E i \in DOMAIN sections : Visible = {i} /\ sections[i] = Privacy

\* The fragment of a location.hash value, which is empty or starts with "#".
FragmentOf(h) == IF h = << >> THEN << >> ELSE Tail(h)

\* The identifier initialization is to show for the entry fragment.
Expected ==
  IF WithTarget(FragmentOf(entryHash)) # {} THEN FragmentOf(entryHash) ELSE Terms

\* C15: on a page with controls, initialization shows the section named by
\* the URL fragment when a control declares that fragment as its target,
\* and 'terms' for every other fragment.
C15_InitialTab ==
  [][(TabsReady /\ tabs # << >>) =>
       /\ hidden' = {i \in DOMAIN sections : sections[i] # Expected}
       /\ active' = WithTarget(Expected)
       /\ tabPc' = "listening"]_vars

\* Loaded with "#unknown-tab", the switcher has shown 'terms'.
C15_Witness ==
  /\ entryHash = <<"#">> \o UnknownTab
  /\ tabPc = "listening"
  /\ clicks = 0
  /\ \E i \in DOMAIN sections : Visible = {i} /\ sections[i] = Terms
  /\ active = WithTarget(Terms) /\ active # {}

====
